---------------------------- MODULE Spec2Model ----------------------------
(***************************************************************************)
(* Text reconstruction pipeline of extrator_decisoes.py: line              *)
(* classification, paragraph reflow (merge_lines), section normalisation,  *)
(* case-number extraction, the per-document pipeline (extrair_info_pdf)    *)
(* and the batch runner (processar_pasta_decisoes).                        *)
(*                                                                         *)
(* Python strings are TLA+ strings; a character is a string of length 1.   *)
(* None is the model value string NONE below.                              *)
(***************************************************************************)
EXTENDS Integers, Sequences, FiniteSets, TLC

VARIABLES
    lines, iM, merged, buffer, pcM,     \* merge_lines: argument, loop index, locals
    text, nome_arquivo, numero, pcN,    \* extrair_numero_processo: arguments, result
    doc, ex,                            \* extrair_info_pdf: the document, the call frame
    arquivos_pdf, idx, resultados, erros, df, csv, log, stats, pcL
                                        \* processar_pasta_decisoes

varsM == <<lines, iM, merged, buffer, pcM>>
varsN == <<text, nome_arquivo, numero, pcN>>
varsP == <<doc, ex>>
varsL == <<arquivos_pdf, idx, resultados, erros, df, csv, log, stats, pcL>>
vars == <<varsM, varsN, varsP, varsL>>

\* Python's None.
NONE == "<None>"

-----------------------------------------------------------------------------
(* Characters and the str methods the code uses.                           *)

CharAt(s, i) == IF i >= 1 /\ i <= Len(s) THEN SubSeq(s, i, i) ELSE ""

Chars(s) == {SubSeq(s, i, i) : i \in 1..Len(s)}

\* s[i:] and s[a:b] with 1-based positions, clipped like Python slices.
From(s, i) == IF i > Len(s) THEN "" ELSE SubSeq(s, i, Len(s))

Slice(s, a, b) == IF a > b \/ a > Len(s) THEN ""
                  ELSE SubSeq(s, a, IF b > Len(s) THEN Len(s) ELSE b)

UpperChars == "ABCDEFGHIJKLMNOPQRSTUVWXYZÁÃÇÓÉÍÔÕÊÚÀÂ"
LowerChars == "abcdefghijklmnopqrstuvwxyzáãçóéíôõêúàâ"

UpperSet == Chars(UpperChars)
LowerSet == Chars(LowerChars) \cup {"º"}

\* Characters with str.isupper() / str.islower() true ("º" is lower-case).
IsUpperChar(c) == c \in UpperSet
IsLowerChar(c) == c \in LowerSet

\* \d of the re module on the characters of the model.
DecimalChars == "0123456789"
DecimalSet == Chars(DecimalChars)
IsDecimal(c) == c \in DecimalSet

\* str.isdigit() per character: the decimals and the superscript digits.
IsDigitChar(c) == IsDecimal(c) \/ c \in {"²", "³", "¹"}

\* \s of the re module and the characters str.strip() removes.
IsSpace(c) == c \in {" ", "\t", "\n", "\r"}

\* \w of the re module.
IsWordChar(c) == IsUpperChar(c) \/ IsLowerChar(c) \/ IsDecimal(c) \/ c = "_"

\* Case folding of re.IGNORECASE, one character.
LowerOf == [c \in UpperSet |->
              LET i == CHOOSE j \in 1..Len(UpperChars) : SubSeq(UpperChars, j, j) = c
              IN SubSeq(LowerChars, i, i)]

LowerChar(c) == IF c \in UpperSet THEN LowerOf[c] ELSE c

RECURSIVE lstrip(_)
lstrip(s) == IF s # "" /\ IsSpace(SubSeq(s, 1, 1)) THEN lstrip(From(s, 2)) ELSE s

RECURSIVE rstrip(_)
rstrip(s) == IF s # "" /\ IsSpace(SubSeq(s, Len(s), Len(s)))
             THEN rstrip(Slice(s, 1, Len(s) - 1)) ELSE s

\* str.strip()
strip(s) == rstrip(lstrip(s))

\* str.isupper(): at least one cased character and no lower-case one.
isupper(s) == /\ \E i \in 1..Len(s) : IsUpperChar(SubSeq(s, i, i))
              /\ \A i \in 1..Len(s) : ~IsLowerChar(SubSeq(s, i, i))

\* str.isdigit(): non-empty and every character a digit.
isdigit(s) == s # "" /\ \A i \in 1..Len(s) : IsDigitChar(SubSeq(s, i, i))

\* sep.join(xs)
RECURSIVE join(_, _)
join(sep, xs) == IF xs = <<>> THEN ""
                 ELSE IF Len(xs) = 1 THEN xs[1]
                 ELSE xs[1] \o sep \o join(sep, Tail(xs))

\* str.splitlines() on texts whose only line boundary is "\n".
RECURSIVE splitlines(_)
splitlines(s) ==
    IF s = "" THEN <<>>
    ELSE LET nl == {k \in 1..Len(s) : SubSeq(s, k, k) = "\n"}
         IN IF nl = {} THEN <<s>>
            ELSE LET k == CHOOSE n \in nl : \A m \in nl : n <= m
                 IN <<Slice(s, 1, k - 1)>> \o splitlines(From(s, k + 1))

-----------------------------------------------------------------------------
(* Regular-expression pieces, matched as the re module matches them.       *)

\* The literal lit at position p of s, ignoring case.
LitAt(s, p, lit) ==
    /\ p >= 1
    /\ p + Len(lit) - 1 <= Len(s)
    /\ \A k \in 1..Len(lit) :
          LowerChar(SubSeq(s, p + k - 1, p + k - 1)) = LowerChar(SubSeq(lit, k, k))

\* \s* from position p: the position after the longest run of white space.
RECURSIVE SkipSpace(_, _)
SkipSpace(s, p) == IF IsSpace(CharAt(s, p)) THEN SkipSpace(s, p + 1) ELSE p

\* \d+ from position p: the position after the longest run of decimals.
RECURSIVE SkipDigits(_, _)
SkipDigits(s, p) == IF IsDecimal(CharAt(s, p)) THEN SkipDigits(s, p + 1) ELSE p

\* \d{n} at position p.
DigitsAt(s, p, n) == \A k \in 0..(n - 1) : IsDecimal(CharAt(s, p + k))

\* \b after a word that ends at position p - 1.
WordEndAt(s, p) == ~IsWordChar(CharAt(s, p))
-----------------------------------------------------------------------------
(* 1. Header and footer patterns.                                          *)

\* HEADER_PATTERNS, searched in the stripped line with re.IGNORECASE.
HeaderMatch(line) ==
    \/ LitAt(line, 1, "PODER JUDICIÁRIO") \/ LitAt(line, 1, "PODER JUDICIARIO")
    \/ LitAt(line, 1, "Comarca de")
    \/ LitAt(line, 1, "Vara ")
    \/ LitAt(line, 1, "Forum") \/ LitAt(line, 1, "Fórum")
    \/ \E p \in 1..Len(line) :
          /\ LitAt(line, p, "CEP:")
          /\ LET q == SkipSpace(line, p + 4)
             IN DigitsAt(line, q, 5) /\ CharAt(line, q + 5) = "-" /\ DigitsAt(line, q + 6, 3)
    \/ LitAt(line, SkipSpace(line, 1), "Tel")
    \/ LitAt(line, SkipSpace(line, 1), "Email")

\* FOOTER_PATTERNS, searched in the stripped line with re.IGNORECASE.
FooterMatch(line) ==
    \/ LitAt(line, 1, "Este documento é cópia do original")
    \/ LitAt(line, 1, "Para conferir o original")
    \/ LitAt(line, 1, "Documento eletrônico assinado por")
    \/ /\ LitAt(line, 1, "fls.")
       /\ IsDecimal(CharAt(line, SkipSpace(line, 5)))

is_header_line(line) == strip(line) # "" /\ HeaderMatch(strip(line))

is_footer_line(line) == strip(line) # "" /\ FooterMatch(strip(line))

-----------------------------------------------------------------------------
(* merge_lines and normalize_paragraphs.                                   *)

RelatorioWords == {"RELATÓRIO", "RELATORIO"}
FundamentacaoWords == {"FUNDAMENTAÇÃO", "FUNDAMENTACÃO", "FUNDAMENTAÇAO", "FUNDAMENTACAO"}
DispositivoWords == {"DISPOSITIVO"}

\* ^\d+\.\s*(w1|w2|...)\b at the start of s: the position after the match, 0
\* when there is none.
SecEnd(s, words) ==
    LET d == SkipDigits(s, 1)
        q == SkipSpace(s, d + 1)
        hit == {w \in words : LitAt(s, q, w) /\ WordEndAt(s, q + Len(w))}
    IN IF d > 1 /\ CharAt(s, d) = "." /\ hit # {}
       THEN q + Len(CHOOSE w \in hit : TRUE)
       ELSE 0

\* sec_pattern.match(line)
SecPatternMatch(line) ==
    SecEnd(line, RelatorioWords \cup FundamentacaoWords \cup DispositivoWords) # 0

\* re.search(r"[.!?;:]$", buffer): $ is the end, or just before a final newline.
TerminalChars == {".", "!", "?", ";", ":"}

EndsSentence(buf) ==
    \/ CharAt(buf, Len(buf)) \in TerminalChars
    \/ /\ CharAt(buf, Len(buf)) = "\n"
       /\ CharAt(buf, Len(buf) - 1) \in TerminalChars

\* The hard-break test of the loop, on the stripped line.
IsHardBreak(line) == SecPatternMatch(line) \/ isupper(line)

\* merged with the buffer flushed, when it is not empty.
Flush(st) == IF st.buffer # "" THEN Append(st.merged, strip(st.buffer)) ELSE st.merged

\* MergeLine with a hard-break line appended without flushing the buffer.
MergeLine_SemFlush(st, raw_line) ==
    LET line == strip(raw_line)
    IN IF line = ""
       THEN [merged |-> Flush(st), buffer |-> ""]
       ELSE IF IsHardBreak(line)
       THEN [merged |-> Append(st.merged, line), buffer |-> st.buffer]
       ELSE IF st.buffer = ""
       THEN [merged |-> st.merged, buffer |-> line]
       ELSE IF EndsSentence(st.buffer)
       THEN [merged |-> Append(st.merged, strip(st.buffer)), buffer |-> line]
       ELSE [merged |-> st.merged, buffer |-> st.buffer \o " " \o line]

\* MergeLine with the punctuation test tried on the incoming line.
MergeLine_TestaLinha(st, raw_line) ==
    LET line == strip(raw_line)
    IN IF line = ""
       THEN [merged |-> Flush(st), buffer |-> ""]
       ELSE IF IsHardBreak(line)
       THEN [merged |-> Append(Flush(st), line), buffer |-> ""]
       ELSE IF st.buffer = ""
       THEN [merged |-> st.merged, buffer |-> line]
       ELSE IF EndsSentence(line)
       THEN [merged |-> Append(st.merged, strip(st.buffer)), buffer |-> line]
       ELSE [merged |-> st.merged, buffer |-> st.buffer \o " " \o line]

\* One iteration of the loop of merge_lines; st is <merged, buffer>.
MergeLine(st, raw_line) ==
    LET line == strip(raw_line)
    IN IF line = ""
       THEN [merged |-> Flush(st), buffer |-> ""]
       ELSE IF IsHardBreak(line)
       THEN [merged |-> Append(Flush(st), line), buffer |-> ""]
       ELSE IF st.buffer = ""
       THEN [merged |-> st.merged, buffer |-> line]
       ELSE IF EndsSentence(st.buffer)
       THEN [merged |-> Append(st.merged, strip(st.buffer)), buffer |-> line]
       ELSE [merged |-> st.merged, buffer |-> st.buffer \o " " \o line]

RECURSIVE MergeLoop(_, _)
MergeLoop(st, ls) == IF ls = <<>> THEN st ELSE MergeLoop(MergeLine(st, Head(ls)), Tail(ls))

merge_lines(ls) == Flush(MergeLoop([merged |-> <<>>, buffer |-> ""], ls))

\* re.sub(r"^\d+\.\s*WORD\b", label, p, flags=re.IGNORECASE)
SubHeading(p, words, label) ==
    LET e == SecEnd(p, words) IN IF e = 0 THEN p ELSE label \o From(p, e)

NormalizeOne(p) ==
    SubHeading(SubHeading(SubHeading(p, RelatorioWords, "### RELATORIO"),
                          FundamentacaoWords, "### FUNDAMENTACAO"),
               DispositivoWords, "### DISPOSITIVO")

normalize_paragraphs(ps) == [i \in 1..Len(ps) |-> NormalizeOne(ps[i])]

-----------------------------------------------------------------------------
(* 2. extrair_numero_processo.                                             *)

\* \d{7}-\d{2}\.\d{4}\.\d\.\d{2}\.\d{4} at position r of s.
ShapeAt(s, r) ==
    /\ DigitsAt(s, r, 7) /\ CharAt(s, r + 7) = "-"
    /\ DigitsAt(s, r + 8, 2) /\ CharAt(s, r + 10) = "."
    /\ DigitsAt(s, r + 11, 4) /\ CharAt(s, r + 15) = "."
    /\ DigitsAt(s, r + 16, 1) /\ CharAt(s, r + 17) = "."
    /\ DigitsAt(s, r + 18, 2) /\ CharAt(s, r + 20) = "."
    /\ DigitsAt(s, r + 21, 4)

\* Where group 1 starts when padrao_numero matches at position p, else 0.
NumeroStart(s, p) ==
    IF LitAt(s, p, "Processo") /\ IsSpace(CharAt(s, p + 8))
    THEN LET q == SkipSpace(s, p + 8)
             r == SkipSpace(s, q + 3)
         IN IF /\ LowerChar(CharAt(s, q)) = "n"
               /\ CharAt(s, q + 1) \in {"º", "#"}
               /\ CharAt(s, q + 2) = ":"
               /\ ShapeAt(s, r)
            THEN r ELSE 0
    ELSE 0

\* padrao_numero.search(text): group 1 of the leftmost match, NONE without one.
SearchNumero(s) ==
    LET hits == {p \in 1..Len(s) : NumeroStart(s, p) # 0}
    IN IF hits = {} THEN NONE
       ELSE LET p == CHOOSE h \in hits : \A g \in hits : h <= g
                r == NumeroStart(s, p)
            IN SubSeq(s, r, r + 24)

\* Path(nome).stem of a name without directory part.
Stem(nome) ==
    LET dots == {k \in 1..Len(nome) : SubSeq(nome, k, k) = "."}
    IN IF dots = {} THEN nome
       ELSE LET k == CHOOSE d \in dots : \A e \in dots : e <= d
            IN IF k > 1 /\ k < Len(nome) THEN SubSeq(nome, 1, k - 1) ELSE nome

\* The f-string of the file-name fallback.
FormatStem(s) ==
    Slice(s, 1, 7) \o "-" \o Slice(s, 8, 9) \o "." \o Slice(s, 10, 13) \o "."
    \o Slice(s, 14, 14) \o "." \o Slice(s, 15, 16) \o "." \o Slice(s, 17, 20)

StemLen == 20

extrair_numero_processo(txt, nome) ==
    LET m_numero == SearchNumero(txt)
        nome_sem_ext == Stem(nome)
    IN IF m_numero # NONE THEN m_numero
       ELSE IF Len(nome_sem_ext) = StemLen /\ isdigit(nome_sem_ext)
       THEN FormatStem(nome_sem_ext)
       ELSE NONE
-----------------------------------------------------------------------------
(* 3. extrair_info_pdf.                                                    *)
(*                                                                         *)
(* A document is what pdfplumber makes of the file: doc.nome is the file   *)
(* name, doc.pages the outcome of extract_text() page by page (a text,     *)
(* NONE, or PageError when the call raises), and doc.falha the exception,  *)
(* if any, raised outside the page loop: onde is where ("abrir": opening   *)
(* the file or reading pdf.pages, "fechar": leaving the with block,        *)
(* "pos": lines 219 to 229), msg is str() of the exception.                *)

PageError == "<raise>"

TruncErro == 50

\* Tratador with lines 219 to 235 outside the outer try.
Tratador_SemTryExterno(local) ==
    CASE local = "page" -> "page_error"
      [] local = "open" -> "pdf_error"
      [] OTHER          -> "nenhum"

\* The handler that catches an Exception raised at a place of the function:
\* the innermost enclosing try.
Tratador(local) ==
    CASE local = "page" -> "page_error"
      [] local = "open" -> "pdf_error"
      [] local = "pos"  -> "e"
      [] OTHER          -> "nenhum"

\* resultado as built on entry.
Resultado0(d) == [arquivo |-> d.nome, numeroProcesso |-> NONE,
                  texto_completo_limpo |-> "", sucesso |-> FALSE, erro |-> NONE]

\* The frame on entry to extrair_info_pdf (pages are counted from 1 here).
Frame0(d) == [pc |-> "abrir", page_idx |-> 1, all_text_pages |-> <<>>,
              cleaned_lines |-> <<>>, full_raw_text |-> NONE,
              resultado |-> Resultado0(d), avisos |-> <<>>]

\* Raise with the outer handler returning without recording the error.
Raise_SemErro(f, local, msg) ==
    LET h == Tratador(local)
    IN CASE h = "page_error" ->
              [f EXCEPT !.avisos = Append(@, f.page_idx), !.page_idx = @ + 1]
         [] h = "pdf_error" ->
              [f EXCEPT !.resultado.erro = "Erro ao abrir PDF: " \o Slice(msg, 1, TruncErro),
                        !.pc = "retornou"]
         [] h = "e" -> [f EXCEPT !.pc = "retornou"]
         [] OTHER -> [f EXCEPT !.pc = "propagou"]

\* The except clauses: what the frame becomes when msg is raised at local.
Raise(f, local, msg) ==
    LET h == Tratador(local)
    IN CASE h = "page_error" ->
              [f EXCEPT !.avisos = Append(@, f.page_idx), !.page_idx = @ + 1]
         [] h = "pdf_error" ->
              [f EXCEPT !.resultado.erro = "Erro ao abrir PDF: " \o Slice(msg, 1, TruncErro),
                        !.pc = "retornou"]
         [] h = "e" ->
              [f EXCEPT !.resultado.erro = "Erro ao processar PDF: " \o msg,
                        !.pc = "retornou"]
         [] OTHER -> [f EXCEPT !.pc = "propagou"]

\* The inner loop over text.splitlines(): the lines one page adds to cleaned_lines.
RECURSIVE CleanLines(_)
CleanLines(ls) ==
    IF ls = <<>> THEN <<>>
    ELSE LET line == Head(ls)
         IN IF is_header_line(line) \/ is_footer_line(line) THEN CleanLines(Tail(ls))
            ELSE IF strip(line) = "" THEN <<"">> \o CleanLines(Tail(ls))
            ELSE <<line>> \o CleanLines(Tail(ls))

\* StepOpen without the test for an empty document.
StepOpen_SemTesteVazio(d, f) ==
    IF d.falha.onde = "abrir" THEN Raise(f, "open", d.falha.msg)
    ELSE [f EXCEPT !.pc = "paginas"]

\* pdfplumber.open and the test for an empty document.
StepOpen(d, f) ==
    IF d.falha.onde = "abrir" THEN Raise(f, "open", d.falha.msg)
    ELSE IF d.pages = <<>>
    THEN LET r == [f EXCEPT !.resultado.erro = "PDF vazio ou sem páginas",
                            !.pc = "retornou"]
         IN IF d.falha.onde = "fechar" THEN Raise(r, "open", d.falha.msg) ELSE r
    ELSE [f EXCEPT !.pc = "paginas"]

\* StepPage without the try around the page: the failure reaches pdf_error.
StepPage_FalhaFatal(d, f) ==
    LET page == d.pages[f.page_idx]
    IN IF page = PageError THEN Raise(f, "open", "")
       ELSE LET txt == IF page = NONE THEN "" ELSE page
            IN [f EXCEPT !.all_text_pages = Append(@, txt),
                         !.cleaned_lines = @ \o CleanLines(splitlines(txt)),
                         !.page_idx = @ + 1]

\* One iteration of the loop over pdf.pages.
StepPage(d, f) ==
    LET page == d.pages[f.page_idx]
    IN IF page = PageError THEN Raise(f, "page", "")
       ELSE LET txt == IF page = NONE THEN "" ELSE page
            IN [f EXCEPT !.all_text_pages = Append(@, txt),
                         !.cleaned_lines = @ \o CleanLines(splitlines(txt)),
                         !.page_idx = @ + 1]

\* The end of the with block.
StepClose(d, f) ==
    IF d.falha.onde = "fechar" THEN Raise(f, "open", d.falha.msg)
    ELSE [f EXCEPT !.pc = "pos"]

\* "\n\n".join(normalize_paragraphs(merge_lines(cleaned_lines))).strip()
TextoLimpo(cleaned) == strip(join("\n\n", normalize_paragraphs(merge_lines(cleaned))))

\* StepPost with the resolver given the filtered lines instead of the raw text.
StepPost_TextoFiltrado(d, f) ==
    IF d.falha.onde = "pos" THEN Raise(f, "pos", d.falha.msg)
    ELSE LET raw == join("\n", f.all_text_pages)
         IN [f EXCEPT !.full_raw_text = raw,
                      !.resultado.numeroProcesso =
                          extrair_numero_processo(join("\n", f.cleaned_lines), d.nome),
                      !.resultado.texto_completo_limpo = TextoLimpo(f.cleaned_lines),
                      !.resultado.sucesso = TRUE,
                      !.pc = "retornou"]

\* Lines 219 to 235.
StepPost(d, f) ==
    IF d.falha.onde = "pos" THEN Raise(f, "pos", d.falha.msg)
    ELSE LET raw == join("\n", f.all_text_pages)
         IN [f EXCEPT !.full_raw_text = raw,
                      !.resultado.numeroProcesso = extrair_numero_processo(raw, d.nome),
                      !.resultado.texto_completo_limpo = TextoLimpo(f.cleaned_lines),
                      !.resultado.sucesso = TRUE,
                      !.pc = "retornou"]

Step(d, f) ==
    CASE f.pc = "abrir" -> StepOpen(d, f)
      [] f.pc = "paginas" /\ f.page_idx <= Len(d.pages) -> StepPage(d, f)
      [] f.pc = "paginas" /\ f.page_idx > Len(d.pages) -> StepClose(d, f)
      [] f.pc = "pos" -> StepPost(d, f)
      [] OTHER -> f

RECURSIVE RunFrame(_, _)
RunFrame(d, f) == IF f.pc \in {"retornou", "propagou"} THEN f ELSE RunFrame(d, Step(d, f))

\* The call as its caller sees it: the final frame.
extrair_info_pdf(d) == RunFrame(d, Frame0(d))
-----------------------------------------------------------------------------
(* processar_pasta_decisoes.                                               *)

\* ProcessFile with every result appended to resultados, failed or not.
ProcessFile_SemFiltro(d, rs, es) ==
    LET f == extrair_info_pdf(d)
    IN IF f.pc = "propagou" THEN [raised |-> TRUE, resultados |-> rs, erros |-> es]
       ELSE IF f.resultado.sucesso
       THEN [raised |-> FALSE, resultados |-> Append(rs, f.resultado), erros |-> es]
       ELSE [raised |-> FALSE, resultados |-> Append(rs, f.resultado),
             erros |-> Append(es, [arquivo |-> d.nome, erro |-> f.resultado.erro])]

\* The loop body for one file: the call and the two lists.
ProcessFile(d, rs, es) ==
    LET f == extrair_info_pdf(d)
    IN IF f.pc = "propagou" THEN [raised |-> TRUE, resultados |-> rs, erros |-> es]
       ELSE IF f.resultado.sucesso
       THEN [raised |-> FALSE, resultados |-> Append(rs, f.resultado), erros |-> es]
       ELSE [raised |-> FALSE, resultados |-> rs,
             erros |-> Append(es, [arquivo |-> d.nome, erro |-> f.resultado.erro])]

\* The row of the CSV for one result: the three columns, renamed.
CsvRow(r) == [arquivo |-> r.arquivo, numero_processo |-> r.numeroProcesso,
              decisao_completa |-> r.texto_completo_limpo]

\* df[[...]].rename(...).to_csv(...): selecting the columns of an empty frame
\* raises KeyError, which the except clause logs; nothing is written then.
SaveCsv(rs) == IF rs = <<>> THEN NONE ELSE [i \in 1..Len(rs) |-> CsvRow(rs[i])]

Stats(files, rs, es) == [total_arquivos |-> Len(files),
                         processados_com_sucesso |-> Len(rs),
                         com_erro |-> Len(es)]

-----------------------------------------------------------------------------
(* Inputs of the model.                                                    *)

MaxLinhas == 3
MaxPaginas == 3
MaxArquivos == 3
Excesso == 7

SeqsUpTo(S, n) == UNION {[1..k -> S] : k \in 0..n}

\* Raw lines given to merge_lines: blank, ordinary with and without terminal
\* punctuation, upper-case, numbered headings, and near misses of each.
Linhas == {"", "  ", "O juiz decide", " que o pedido procede. ", "Vistos etc;",
           "SENTENÇA", " DECIDO. ", "1. RELATÓRIO", "2. Fundamentação",
           "3. dispositivo final:", "3. Dispositivos", "12"}

NumeroA == "0000498-37.2018.8.06.0127"
NumeroB == "1111111-22.3333.4.55.6666"
NumeroC == "2222222-33.4444.5.66.7777"

\* Texts given to extrair_numero_processo: a label (or a near miss of it)
\* followed by a number (or a near miss of it), with text around.
Prefixos == {"", "Vara Única\n"}
Rotulos == {"Processo nº: ", "PROCESSO   N#:", "Processo n: ", "Processo\nnº:\n", "Autos nº: "}
Numeros == {NumeroA, "000498-37.2018.8.06.0127", "0000498-37.2018.8.06.01275",
            "0000498.37.2018.8.06.0127", ""}
Sufixos == {"", "\nSENTENÇA", "\nProcesso n#: " \o NumeroB}

Textos == {pre \o rot \o num \o suf :
              pre \in Prefixos, rot \in Rotulos, num \in Numeros, suf \in Sufixos}

NomesArquivo == {"00004983720188060127.pdf", "decisao.pdf", "0000498372018806012.pdf",
                 "0000498372018806012a.pdf", "00004983720188060127",
                 "²²²²²²²²²²²²²²²²²²²².pdf"}

\* Page texts: a page of letterhead only, with the case-number label on a
\* header line; a page with a heading, a wrapped sentence and a footer; a page
\* with the label in the body; a page with blank lines, a footer and a heading
\* followed by text.
PaginaCabecalho == "PODER JUDICIÁRIO\nVara Única - Processo n#: " \o NumeroB \o "\nfls. 1\n"
PaginaCorpo == "1. RELATÓRIO\nO autor alega\nque sofreu dano.\nfls. 12\n"
PaginaRotulo == "Processo nº: " \o NumeroC \o "\n\nDECIDO.\nJulgo procedente"

PaginaMista == "\n  \nEste documento é cópia do original\n3. dispositivo final: julgo\nimprocedente;\n"

Paginas == {PageError, NONE, PaginaCabecalho, PaginaCorpo, PaginaRotulo, PaginaMista}

RECURSIVE Xs(_)
Xs(n) == IF n = 0 THEN "" ELSE "x" \o Xs(n - 1)

\* str() of the exceptions: empty, exactly at the truncation, beyond it.
Mensagens == {"", Xs(TruncErro), Xs(TruncErro + Excesso)}

SemFalha == [onde |-> "nenhuma", msg |-> ""]

Falhas == {SemFalha} \cup [onde : {"abrir", "fechar", "pos"}, msg : Mensagens]

NomesPdf == {"00004983720188060127.pdf", "decisao.pdf"}

Docs == [nome : NomesPdf, pages : SeqsUpTo(Paginas, MaxPaginas), falha : Falhas]

\* The files of a folder, each name once.
DocsLote == {
    [nome |-> "00004983720188060127.pdf", pages |-> <<PaginaCorpo>>, falha |-> SemFalha],
    [nome |-> "vazio.pdf", pages |-> <<>>, falha |-> SemFalha],
    [nome |-> "corrompido.pdf", pages |-> <<PaginaCorpo>>,
     falha |-> [onde |-> "abrir", msg |-> Xs(TruncErro + Excesso)]],
    [nome |-> "parcial.pdf", pages |-> <<PageError, PaginaRotulo>>, falha |-> SemFalha],
    [nome |-> "inesperado.pdf", pages |-> <<PaginaCabecalho>>,
     falha |-> [onde |-> "pos", msg |-> "x"]]}

Pastas == {fs \in SeqsUpTo(DocsLote, MaxArquivos) :
              \A i, j \in 1..Len(fs) : i # j => fs[i].nome # fs[j].nome}

-----------------------------------------------------------------------------
(* The four state machines.  Each leaves the variables of the others at    *)
(* their idle values.                                                      *)

IdleM == lines = <<>> /\ iM = 1 /\ merged = <<>> /\ buffer = "" /\ pcM = "idle"
IdleN == text = "" /\ nome_arquivo = "" /\ numero = NONE /\ pcN = "idle"
IdleP == doc = [nome |-> "", pages |-> <<>>, falha |-> SemFalha] /\ ex = [pc |-> "idle"]
IdleL == /\ arquivos_pdf = <<>> /\ idx = 1 /\ resultados = <<>> /\ erros = <<>>
         /\ df = NONE /\ csv = NONE /\ log = <<>> /\ stats = NONE /\ pcL = "idle"

(* extrair_info_pdf, one step of the function per action. *)

Init == /\ doc \in Docs
        /\ ex = Frame0(doc)
        /\ IdleM /\ IdleN /\ IdleL

Abrir == /\ ex.pc = "abrir"
         /\ ex' = StepOpen(doc, ex)
         /\ UNCHANGED <<doc, varsM, varsN, varsL>>

ProcessarPagina == /\ ex.pc = "paginas"
                   /\ ex.page_idx <= Len(doc.pages)
                   /\ ex' = StepPage(doc, ex)
                   /\ UNCHANGED <<doc, varsM, varsN, varsL>>

Fechar == /\ ex.pc = "paginas"
          /\ ex.page_idx > Len(doc.pages)
          /\ ex' = StepClose(doc, ex)
          /\ UNCHANGED <<doc, varsM, varsN, varsL>>

PosProcessar == /\ ex.pc = "pos"
                /\ ex' = StepPost(doc, ex)
                /\ UNCHANGED <<doc, varsM, varsN, varsL>>

Next == Abrir \/ ProcessarPagina \/ Fechar \/ PosProcessar

Spec == Init /\ [][Next]_vars

(* merge_lines, one iteration of its loop per action. *)

InitMerge == /\ lines \in SeqsUpTo(Linhas, MaxLinhas)
             /\ iM = 1 /\ merged = <<>> /\ buffer = "" /\ pcM = "laco"
             /\ IdleN /\ IdleP /\ IdleL

IterarLinha == /\ pcM = "laco"
               /\ iM <= Len(lines)
               /\ LET st == MergeLine([merged |-> merged, buffer |-> buffer], lines[iM])
                  IN merged' = st.merged /\ buffer' = st.buffer
               /\ iM' = iM + 1
               /\ UNCHANGED <<lines, pcM, varsN, varsP, varsL>>

RetornarMerged == /\ pcM = "laco"
                  /\ iM > Len(lines)
                  /\ merged' = Flush([merged |-> merged, buffer |-> buffer])
                  /\ pcM' = "retornou"
                  /\ UNCHANGED <<lines, iM, buffer, varsN, varsP, varsL>>

NextMerge == IterarLinha \/ RetornarMerged

SpecMerge == InitMerge /\ [][NextMerge]_vars

(* extrair_numero_processo, applied to a text and a file name. *)

InitNumero == /\ text \in Textos
              /\ nome_arquivo \in NomesArquivo
              /\ numero = NONE /\ pcN = "chamada"
              /\ IdleM /\ IdleP /\ IdleL

ExtrairNumero == /\ pcN = "chamada"
                 /\ numero' = extrair_numero_processo(text, nome_arquivo)
                 /\ pcN' = "retornou"
                 /\ UNCHANGED <<text, nome_arquivo, varsM, varsP, varsL>>

NextNumero == ExtrairNumero

SpecNumero == InitNumero /\ [][NextNumero]_vars

(* processar_pasta_decisoes, one file per action. *)

InitLote == /\ arquivos_pdf \in Pastas
            /\ idx = 1 /\ resultados = <<>> /\ erros = <<>>
            /\ df = NONE /\ csv = NONE /\ log = <<>> /\ stats = NONE /\ pcL = "laco"
            /\ IdleM /\ IdleN /\ IdleP

ProcessarArquivo ==
    /\ pcL = "laco"
    /\ idx <= Len(arquivos_pdf)
    /\ LET r == ProcessFile(arquivos_pdf[idx], resultados, erros)
       IN /\ resultados' = r.resultados
          /\ erros' = r.erros
          /\ pcL' = IF r.raised THEN "propagou" ELSE "laco"
    /\ log' = Append(log, arquivos_pdf[idx].nome)
    /\ idx' = idx + 1
    /\ UNCHANGED <<arquivos_pdf, df, csv, stats, varsM, varsN, varsP>>

SalvarCsv == /\ pcL = "laco"
             /\ idx > Len(arquivos_pdf)
             /\ df' = resultados
             /\ csv' = SaveCsv(resultados)
             /\ pcL' = "salvo"
             /\ UNCHANGED <<arquivos_pdf, idx, resultados, erros, log, stats, varsM, varsN, varsP>>

Retornar == /\ pcL = "salvo"
            /\ stats' = Stats(arquivos_pdf, resultados, erros)
            /\ pcL' = "retornou"
            /\ UNCHANGED <<arquivos_pdf, idx, resultados, erros, df, csv, log, varsM, varsN, varsP>>

NextLote == ProcessarArquivo \/ SalvarCsv \/ Retornar

SpecLote == InitLote /\ [][NextLote]_vars
-----------------------------------------------------------------------------
(* Properties of extrair_info_pdf (specification Spec).                    *)

Retornou == ex.pc = "retornou"

\* The texts of the pages whose extraction does not fail, in page order.
RECURSIVE OkTexts(_)
OkTexts(ps) ==
    IF ps = <<>> THEN <<>>
    ELSE IF Head(ps) = PageError THEN OkTexts(Tail(ps))
    ELSE <<IF Head(ps) = NONE THEN "" ELSE Head(ps)>> \o OkTexts(Tail(ps))

\* The indices of the pages whose extraction fails, in page order.
FailedPages(ps) ==
    LET F[k \in 0..Len(ps)] ==
          IF k = 0 THEN <<>>
          ELSE IF ps[k] = PageError THEN Append(F[k - 1], k) ELSE F[k - 1]
    IN F[Len(ps)]

\* All the lines of a sequence of texts, in order.
RECURSIVE AllLines(_)
AllLines(ts) == IF ts = <<>> THEN <<>> ELSE splitlines(Head(ts)) \o AllLines(Tail(ts))

IsBoilerplate(line) == is_header_line(line) \/ is_footer_line(line)

\* The case numbers labelled on the lines of ls that satisfy (or not) IsBoilerplate.
LabelsOn(ls, boiler) ==
    {SearchNumero(ls[i]) : i \in {j \in 1..Len(ls) : IsBoilerplate(ls[j]) = boiler}} \ {NONE}

\* C1: a returned result is either a success without error description or a
\* failure with a non-empty error description, never both and never neither.
C1_SucessoOuErro ==
    Retornou =>
        \/ ex.resultado.sucesso /\ ex.resultado.erro = NONE
        \/ /\ ~ex.resultado.sucesso
           /\ ex.resultado.erro # NONE
           /\ Len(ex.resultado.erro) > 0

\* A document with no pages whose closing fails as well: the error description
\* of the empty document is replaced, and the result is still a failure.
C1_Witness ==
    /\ Retornou
    /\ doc.pages = <<>>
    /\ doc.falha.onde = "fechar"
    /\ ~ex.resultado.sucesso
    /\ ex.resultado.erro = "Erro ao abrir PDF: " \o Slice(doc.falha.msg, 1, TruncErro)

\* C2: no exception leaves extrair_info_pdf: the call never ends by raising,
\* and when opening, closing or a step after the page loop raises, it ends by
\* returning a result with sucesso false.
C2_NuncaPropaga ==
    /\ ex.pc # "propagou"
    /\ (Retornou /\ doc.falha.onde # "nenhuma") => ~ex.resultado.sucesso

\* All pages were read and a step after the loop raised: a failure is returned.
C2_Witness ==
    /\ Retornou
    /\ doc.falha.onde = "pos"
    /\ Len(doc.pages) = MaxPaginas
    /\ ex.page_idx = Len(doc.pages) + 1
    /\ ~ex.resultado.sucesso

\* The longest error description a truncated message can give.
LimiteErro == Len("Erro ao processar PDF: ") + TruncErro

\* C3: on every failure path the error description has a bounded length,
\* whatever the length of the exception message.
C3_ErroTruncado ==
    (Retornou /\ ~ex.resultado.sucesso) => Len(ex.resultado.erro) <= LimiteErro

\* C4: a document that cannot be opened or has no pages gives a failure with
\* a non-empty error description, no cleaned text and no case number, without
\* any page visited, whatever the file name.
C4_SemResultadoParcial ==
    (Retornou /\ (doc.falha.onde = "abrir" \/ doc.pages = <<>>)) =>
        /\ ~ex.resultado.sucesso
        /\ ex.resultado.erro # NONE /\ Len(ex.resultado.erro) > 0
        /\ ex.resultado.texto_completo_limpo = ""
        /\ ex.resultado.numeroProcesso = NONE
        /\ ex.page_idx = 1 /\ ex.all_text_pages = <<>> /\ ex.avisos = <<>>

\* An empty document whose name is a 20-digit stem: no case number is derived.
C4_Witness ==
    /\ Retornou
    /\ doc.pages = <<>>
    /\ doc.falha = SemFalha
    /\ extrair_numero_processo("", doc.nome) = NumeroA
    /\ ex.resultado.erro = "PDF vazio ou sem páginas"
    /\ ex.resultado.numeroProcesso = NONE

\* C5: pages whose extraction fails are skipped: at every point of the loop
\* the texts kept are those of the non-failing pages visited so far, in page
\* order, and a document with at least one page and no other failure returns
\* a success whose cleaned text and resolver input are built from exactly the
\* non-failing pages.
C5_PaginaFalhaNaoFatal ==
    /\ ex.pc \in {"paginas", "pos"} =>
          /\ ex.all_text_pages = OkTexts(SubSeq(doc.pages, 1, ex.page_idx - 1))
          /\ ex.avisos = FailedPages(SubSeq(doc.pages, 1, ex.page_idx - 1))
    /\ (Retornou /\ doc.pages # <<>> /\ doc.falha = SemFalha) =>
          /\ ex.resultado.sucesso
          /\ ex.page_idx = Len(doc.pages) + 1
          /\ ex.avisos = FailedPages(doc.pages)
          /\ ex.all_text_pages = OkTexts(doc.pages)
          /\ ex.full_raw_text = join("\n", OkTexts(doc.pages))
          /\ ex.resultado.texto_completo_limpo =
                 TextoLimpo(CleanLines(AllLines(OkTexts(doc.pages))))

\* Three pages, the second fails: the result is a success built from the
\* first and the third.
C5_Witness ==
    /\ Retornou
    /\ doc.pages = <<PaginaCorpo, PageError, PaginaRotulo>>
    /\ ex.resultado.sucesso
    /\ ex.avisos = <<2>>
    /\ ex.full_raw_text = PaginaCorpo \o "\n" \o PaginaRotulo
    /\ ex.resultado.texto_completo_limpo =
           "### RELATORIO\n\nO autor alega que sofreu dano.\n\nProcesso nº: "
           \o NumeroC \o "\n\nDECIDO.\n\nJulgo procedente"

\* C9: a case-number label found only on header or footer lines of the pages
\* read is absent from the cleaned text, is returned as numeroProcesso, and
\* wins over the number the file name would give.
C9_RotuloEmCabecalho ==
    LET ls == AllLines(OkTexts(doc.pages))
    IN (Retornou /\ ex.resultado.sucesso /\ LabelsOn(ls, TRUE) # {} /\ LabelsOn(ls, FALSE) = {}) =>
          /\ ex.resultado.numeroProcesso \in LabelsOn(ls, TRUE)
          /\ SearchNumero(ex.resultado.texto_completo_limpo) = NONE
          /\ ex.resultado.numeroProcesso = SearchNumero(ex.full_raw_text)

\* The label is on a header line only and the file name encodes another number.
C9_Witness ==
    /\ Retornou
    /\ doc.pages = <<PaginaCabecalho, PaginaCorpo>>
    /\ extrair_numero_processo("", doc.nome) = NumeroA
    /\ ex.resultado.numeroProcesso = NumeroB
    /\ ex.resultado.texto_completo_limpo = "### RELATORIO\n\nO autor alega que sofreu dano."

-----------------------------------------------------------------------------
(* Properties of merge_lines (specification SpecMerge).                    *)

IsOrdinary(raw_line) == strip(raw_line) # "" /\ ~IsHardBreak(strip(raw_line))

Before(i) == SubSeq(lines, 1, i - 1)
After(i) == SubSeq(lines, i + 1, Len(lines))

Front(xs) == SubSeq(xs, 1, Len(xs) - 1)
Last(xs) == xs[Len(xs)]

\* The stripped non-blank lines, in order.
RECURSIVE NonBlank(_)
NonBlank(ls) ==
    IF ls = <<>> THEN <<>>
    ELSE IF strip(Head(ls)) = "" THEN NonBlank(Tail(ls))
    ELSE <<strip(Head(ls))>> \o NonBlank(Tail(ls))

\* C6: a line that is upper-case or a numbered section heading is a paragraph
\* of its own, equal to the stripped line, standing between the paragraphs of
\* the lines before it and the paragraphs of the lines after it.
C6_QuebraForte ==
    pcM = "retornou" =>
        \A i \in 1..Len(lines) :
            IsHardBreak(strip(lines[i])) =>
                merged = merge_lines(Before(i)) \o <<strip(lines[i])>> \o merge_lines(After(i))

\* A heading after an unfinished sentence and before an ordinary line.
C6_Witness ==
    /\ pcM = "retornou"
    /\ lines = <<"O juiz decide", "2. Fundamentação", " que o pedido procede. ">>
    /\ merged = <<"O juiz decide", "2. Fundamentação", "que o pedido procede.">>

\* C7: of two consecutive ordinary lines the second is joined to the paragraph
\* in progress with one space iff that paragraph does not end in . ! ? ; : and
\* starts a new paragraph otherwise; lines that all end in terminal punctuation
\* give one paragraph per line; and the paragraphs hold the non-blank lines in
\* input order, nothing dropped, duplicated or reordered.
C7_FronteiraPontuacao ==
    pcM = "retornou" =>
        /\ \A i \in 1..(Len(lines) - 1) :
              (IsOrdinary(lines[i]) /\ IsOrdinary(lines[i + 1])) =>
                  LET a == merge_lines(SubSeq(lines, 1, i))
                      b == merge_lines(After(i))
                  IN IF CharAt(strip(lines[i]), Len(strip(lines[i]))) \in TerminalChars
                     THEN merged = a \o b
                     ELSE merged = Front(a) \o <<Last(a) \o " " \o Head(b)>> \o Tail(b)
        /\ (\A i \in 1..Len(lines) :
                CharAt(strip(lines[i]), Len(strip(lines[i]))) \in TerminalChars) =>
              merged = [i \in 1..Len(lines) |-> strip(lines[i])]
        /\ join(" ", merged) = join(" ", NonBlank(lines))

\* A wrapped sentence followed by a new one.
C7_Witness ==
    /\ pcM = "retornou"
    /\ lines = <<"O juiz decide", " que o pedido procede. ", "3. Dispositivos">>
    /\ merged = <<"O juiz decide que o pedido procede.", "3. Dispositivos">>

-----------------------------------------------------------------------------
(* Properties of extrair_numero_processo (specification SpecNumero).       *)

\* NNNNNNN-DD.AAAA.J.TT.OOOO, the whole of s.
Conforms(s) == Len(s) = 25 /\ ShapeAt(s, 1)

\* C8: the case number returned is absent or conforms to
\* NNNNNNN-DD.AAAA.J.TT.OOOO, from the text or from the file name.
C8_NumeroConforme ==
    pcN = "retornou" => (numero = NONE \/ Conforms(numero))

-----------------------------------------------------------------------------
(* Properties of processar_pasta_decisoes (specification SpecLote).        *)

\* The results of the successful documents of fs, in order.
RECURSIVE Sucessos(_)
Sucessos(fs) ==
    IF fs = <<>> THEN <<>>
    ELSE LET f == extrair_info_pdf(Head(fs))
         IN IF f.pc = "retornou" /\ f.resultado.sucesso
            THEN <<f.resultado>> \o Sucessos(Tail(fs))
            ELSE Sucessos(Tail(fs))

\* C10: a failing document does not stop the batch: the files are processed
\* once each in list order, the rows given to the export are the successful
\* results in input order, and the totals returned add up.
C10_LoteContinua ==
    /\ pcL # "propagou"
    /\ pcL # "idle" =>
          /\ log = [i \in 1..(idx - 1) |-> arquivos_pdf[i].nome]
          /\ resultados = Sucessos(SubSeq(arquivos_pdf, 1, idx - 1))
          /\ Len(resultados) + Len(erros) = idx - 1
    /\ pcL \in {"salvo", "retornou"} =>
          /\ idx = Len(arquivos_pdf) + 1
          /\ df = Sucessos(arquivos_pdf)
          /\ \A i \in 1..Len(df) : df[i].sucesso
    /\ pcL = "retornou" =>
          /\ stats.total_arquivos = Len(arquivos_pdf)
          /\ stats.total_arquivos = stats.processados_com_sucesso + stats.com_erro
          /\ stats.processados_com_sucesso = Len(df)

\* Two failing files first, a successful one after them.
C10_Witness ==
    /\ pcL = "retornou"
    /\ Len(arquivos_pdf) = 3
    /\ arquivos_pdf[1].nome = "corrompido.pdf"
    /\ arquivos_pdf[2].nome = "vazio.pdf"
    /\ arquivos_pdf[3].nome = "parcial.pdf"
    /\ stats.processados_com_sucesso = 1
    /\ stats.com_erro = 2
    /\ csv = <<[arquivo |-> "parcial.pdf", numero_processo |-> NumeroC,
               decisao_completa |-> "Processo nº: " \o NumeroC \o "\n\nDECIDO.\n\nJulgo procedente"]>>

=============================================================================
